---- MODULE Spec2Model ----
(***************************************************************************)
(* Model of aisuite/providers/ollama_provider.py: the OllamaProvider        *)
(* adapter.  The constructor resolves url and timeout; each invocation of   *)
(* chat_completions_create builds a payload from its keyword arguments,     *)
(* posts it, classifies the outcome and normalizes the reply.               *)
(*                                                                          *)
(* Python values are tagged records so that values of different Python      *)
(* types can be compared.  Strings that the code takes apart or puts        *)
(* together (the url, error messages) are sequences of string pieces.       *)
(***************************************************************************)
EXTENDS Integers, Sequences, FiniteSets, TLC

\* ------------------------------------------------------------------ bounds
\* largest number of keyword arguments a caller passes
MaxKwargs == 2
\* number of callers invoking the same adapter in SpecConc
NumCallers == 2

\* ------------------------------------------------------- program constants
DefaultTimeout == 30
HTTP_OK == 200

\* ------------------------------------------------------------ Python values
EmptyMap == [k \in {} |-> TRUE]

Atom(kind, a) == [kind |-> kind, atom |-> a, fields |-> EmptyMap]

JStr(s) == Atom("string", s)

JNull == Atom("null", "null")

JBool(b) == Atom("bool", IF b THEN "true" ELSE "false")

JArr(a) == Atom("array", a)

JObj(f) == [kind |-> "object", atom |-> "", fields |-> f]

\* an attribute that was never assigned
Unset == Atom("unset", "")

IsDict(v) == v.kind = "object"

\* str(v), as an f-string renders v
PyStr(v) ==
    CASE v.kind = "string" -> v.atom
      [] v.kind = "null"   -> "None"
      [] v.kind = "bool"   -> IF v.atom = "true" THEN "True" ELSE "False"
      [] v.kind = "object" -> "{...}"
      [] OTHER             -> v.atom

\* dict operations
DictPop(d, k) == [x \in (DOMAIN d) \ {k} |-> d[x]]

DictUpdate(d, e) ==
    [x \in (DOMAIN d) \cup (DOMAIN e) |-> IF x \in DOMAIN e THEN e[x] ELSE d[x]]

DictSet(d, k, v) == DictUpdate(d, k :> v)

\* ------------------------------------------------------- class attributes
_CHAT_COMPLETION_ENDPOINT == <<"/api/chat">>

\* (the source writes ollama serve between backquotes, which a TLA+ string
\* cannot hold; they are written as apostrophes here)
_CONNECT_ERROR_MESSAGE ==
    <<"Ollama is likely not running. Start Ollama by running 'ollama serve' on your host.">>

DefaultUrl == <<"http://localhost:11434">>

EnvVarName == "OLLAMA_API_URL"

\* the keys the loop of chat_completions_create moves into options, in order
OptionKeys == <<"temperature", "top_p", "seed", "stop", "num_predict", "top_k">>

OptionKeySet == {OptionKeys[n] : n \in 1..Len(OptionKeys)}

\* ------------------------------------------------------------- exceptions
Exc(class, text) == [class |-> class, text |-> text]

NoExc == Exc("", <<>>)

LLMError(text) == Exc("LLMError", text)

\* the classes of httpx's exception hierarchy each class derives from
Bases(class) ==
    CASE class = "ConnectError"    -> {"ConnectError", "TransportError", "Exception"}
      [] class = "ReadTimeout"     -> {"ReadTimeout", "TimeoutException", "TransportError", "Exception"}
      [] class = "ConnectTimeout"  -> {"ConnectTimeout", "TimeoutException", "TransportError", "Exception"}
      [] class = "HTTPStatusError" -> {"HTTPStatusError", "Exception"}
      [] OTHER                     -> {class, "Exception"}

IsInstance(e, class) == class \in Bases(e.class)

\* ---------------------------------------------------------------- inputs
Slash == "/"

ExplicitUrl == <<"http://host:1234", Slash>>

EnvUrl == <<"http://envhost:11434">>

ApiUrls == {<<>>, ExplicitUrl}

Timeouts == {5}

Configs ==
    {EmptyMap}
      \cup {[api_url |-> u] : u \in ApiUrls}
      \cup {[timeout |-> t] : t \in Timeouts}
      \cup {[api_url |-> u, timeout |-> t] : u \in ApiUrls, t \in Timeouts}

Environments == {EmptyMap} \cup {EnvVarName :> u : u \in {<<>>, EnvUrl}}

Models == {"llama3", "mistral"}

MessageLists == {"msgs_a", "msgs_b"}

KwargKeys == {"tools", "options", "stream", "format"} \cup OptionKeySet

\* the value a caller passes under each keyword
KwargValue(k) ==
    CASE k = "tools"   -> JArr("[{type: function}]")
      [] k = "options" -> JObj("num_ctx" :> Atom("number", "4096"))
      [] k = "stream"  -> JBool(TRUE)
      [] k = "format"  -> JStr("json")
      [] k = "stop"    -> JArr("[END]")
      [] OTHER         -> Atom("number", k)

KwargsOver(keys) ==
    {[k \in K |-> KwargValue(k)] :
        K \in {S \in SUBSET keys : Cardinality(S) <= MaxKwargs}}

\* the arguments of one invocation
Args(m, ms, kw) == [model |-> m, messages |-> ms, kwargs |-> kw]

AllArgs == {Args(m, ms, kw) : m \in Models, ms \in MessageLists, kw \in KwargsOver(KwargKeys)}

ConcArgs == {Args(m, "msgs_a", kw) : m \in Models, kw \in KwargsOver({"temperature", "stream"})}

\* response bodies: the raw text, whether it parses as JSON, and the value
Body(text, parsed, json) == [text |-> text, parsed |-> parsed, json |-> json]

ToolCalls == JArr("[{id: 1}]")

Bodies ==
    { Body("<html>bad gateway</html>", FALSE, JNull),
      Body("[1]", TRUE, JArr("[1]")),
      Body("{}", TRUE, JObj(EmptyMap)),
      Body("{error: boom}", TRUE, JObj("error" :> JStr("boom"))),
      Body("{message: {content: hi, tool_calls: [{id: 1}]}}", TRUE,
           JObj("message" :> JObj(("content" :> JStr("hi")) @@ ("tool_calls" :> ToolCalls)))),
      Body("{message: {content: hi}}", TRUE,
           JObj("message" :> JObj("content" :> JStr("hi")))),
      Body("{message: {tool_calls: [{id: 1}]}}", TRUE,
           JObj("message" :> JObj("tool_calls" :> ToolCalls))),
      Body("{message: {}}", TRUE, JObj("message" :> JObj(EmptyMap))),
      Body("{message: hi}", TRUE, JObj("message" :> JStr("hi"))),
      Body("{message: null}", TRUE, JObj("message" :> JNull)) }

StatusCodes == {200, 404, 500}

\* what httpx.post can do: raise a transport exception or return a response
Outcome(kind, exc, status, body) ==
    [kind |-> kind, exc |-> exc, status |-> status, body |-> body]

NoBody == Body("", FALSE, JNull)

NoOutcome == Outcome("none", NoExc, 0, NoBody)

Raised(e) == Outcome("exception", e, 0, NoBody)

Response(status, body) == Outcome("response", NoExc, status, body)

TransportErrors ==
    { Exc("ConnectError", <<"[Errno 111] Connection refused">>),
      Exc("ReadTimeout", <<"timed out">>),
      Exc("UnsupportedProtocol", <<"Request URL is missing an 'http://' or 'https://' protocol.">>) }

AllOutcomes ==
    {Raised(e) : e \in TransportErrors}
      \cup {Response(s, b) : s \in StatusCodes, b \in Bodies}

ConcOutcomes ==
    { Raised(Exc("ConnectError", <<"[Errno 111] Connection refused">>)),
      Response(500, Body("{error: boom}", TRUE, JObj("error" :> JStr("boom")))),
      Response(200, Body("{message: {content: hi}}", TRUE,
                         JObj("message" :> JObj("content" :> JStr("hi"))))) }

StatusText(s) ==
    CASE s = 200 -> "200"
      [] s = 404 -> "404"
      [] s = 500 -> "500"
      [] OTHER   -> "0"

\* ------------------------------------------------------------------ state
VARIABLES
    environ,      \* os.environ, restricted to OLLAMA_API_URL
    config,       \* the keyword arguments given to the constructor
    constructed,  \* whether __init__ has run
    url,          \* self.url
    timeout,      \* self.timeout
    pc,           \* per caller: position inside chat_completions_create
    model,        \* per caller: the model argument
    messages,     \* per caller: the messages argument
    passed,       \* per caller: the keyword arguments as the caller passed them
    kwargs,       \* per caller: the local kwargs dict (popped from while building)
    payload,      \* per caller: the local payload dict
    sent,         \* per caller: the requests httpx.post has issued, in order
    response,     \* per caller: what httpx.post raised or returned
    result        \* per caller: what the invocation returned or raised

adapter == <<environ, config, constructed, url, timeout>>

frames == <<pc, model, messages, passed, kwargs, payload, sent, response, result>>

vars == <<adapter, frames>>

Callers == DOMAIN pc

\* what an invocation hands back to its caller
Result(kind, exc, content, tool_calls) ==
    [kind |-> kind, exc |-> exc, content |-> content, tool_calls |-> tool_calls]

NoResult == Result("none", NoExc, Unset, Unset)

Raise(e) == Result("raise", e, Unset, Unset)

\* ------------------------------------------------------------ constructor
getenv(env, name, default) == IF name \in DOMAIN env THEN env[name] ELSE default

\* variant: the environment variable is consulted before the config value
ResolveUrlEnvFirst(cfg, env) ==
    IF EnvVarName \in DOMAIN env THEN env[EnvVarName]
    ELSE IF "api_url" \in DOMAIN cfg /\ Len(cfg.api_url) > 0 THEN cfg.api_url
    ELSE DefaultUrl

\* config.get("api_url") or os.getenv("OLLAMA_API_URL", "http://localhost:11434")
ResolveUrl(cfg, env) ==
    IF "api_url" \in DOMAIN cfg /\ Len(cfg.api_url) > 0
    THEN cfg.api_url
    ELSE getenv(env, EnvVarName, DefaultUrl)

\* config.get("timeout", 30)
ResolveTimeout(cfg) ==
    IF "timeout" \in DOMAIN cfg THEN cfg.timeout ELSE DefaultTimeout

__init__ ==
    /\ ~constructed
    /\ constructed' = TRUE
    /\ url' = ResolveUrl(config, environ)
    /\ timeout' = ResolveTimeout(config)
    /\ UNCHANGED <<environ, config, frames>>

\* ------------------------------------------------- chat_completions_create
\* entry: the arguments are bound; **kwargs is a dict of the call's own
call(i, argsFrom) ==
    /\ constructed
    /\ pc[i] = "idle"
    /\ \E a \in argsFrom :
          /\ model' = [model EXCEPT ![i] = a.model]
          /\ messages' = [messages EXCEPT ![i] = a.messages]
          /\ passed' = [passed EXCEPT ![i] = a.kwargs]
          /\ kwargs' = [kwargs EXCEPT ![i] = a.kwargs]
    /\ pc' = [pc EXCEPT ![i] = "build"]
    /\ UNCHANGED <<adapter, payload, sent, response, result>>

\* variant: the stream key is left out of the initial payload
BasePayloadNoStream(m, ms) == ("model" :> JStr(m)) @@ ("messages" :> JArr(ms))

\* the three required keys
BasePayload(m, ms) ==
    ("model" :> JStr(m)) @@ ("messages" :> JArr(ms)) @@ ("stream" :> JBool(FALSE))

\* if "tools" in kwargs: payload["tools"] = kwargs.pop("tools")
MoveTools(st) ==
    IF "tools" \in DOMAIN st.kwargs
    THEN [st EXCEPT !.payload = DictSet(st.payload, "tools", st.kwargs["tools"]),
                    !.kwargs = DictPop(st.kwargs, "tools")]
    ELSE st

\* the loop over the option keys, from key number n on
RECURSIVE MoveOptions(_, _)
MoveOptions(st, n) ==
    IF n > Len(OptionKeys) THEN st
    ELSE LET key == OptionKeys[n]
         IN  IF key \in DOMAIN st.kwargs
             THEN MoveOptions([st EXCEPT !.options = DictSet(st.options, key, st.kwargs[key]),
                                         !.kwargs = DictPop(st.kwargs, key)], n + 1)
             ELSE MoveOptions(st, n + 1)

\* variant: options is attached even when it stayed empty
AttachOptionsAlways(st) ==
    [st EXCEPT !.payload = DictSet(st.payload, "options", JObj(st.options))]

\* if options: payload["options"] = options
AttachOptions(st) ==
    IF DOMAIN st.options # {}
    THEN [st EXCEPT !.payload = DictSet(st.payload, "options", JObj(st.options))]
    ELSE st

\* payload.update(kwargs)
MergeRest(st) == [st EXCEPT !.payload = DictUpdate(st.payload, st.kwargs)]

BuildPayload(m, ms, kw) ==
    MergeRest(AttachOptions(MoveOptions(MoveTools(
        [payload |-> BasePayload(m, ms), options |-> EmptyMap, kwargs |-> kw]), 1)))

\* variant: the payload is kept on the adapter, one slot for all callers
build_payload_shared(i) ==
    /\ pc[i] = "build"
    /\ LET st == BuildPayload(model[i], messages[i], kwargs[i])
       IN  /\ payload' = [j \in Callers |-> st.payload]
           /\ kwargs' = [kwargs EXCEPT ![i] = st.kwargs]
    /\ pc' = [pc EXCEPT ![i] = "post"]
    /\ UNCHANGED <<adapter, model, messages, passed, sent, response, result>>

build_payload(i) ==
    /\ pc[i] = "build"
    /\ LET st == BuildPayload(model[i], messages[i], kwargs[i])
       IN  /\ payload' = [payload EXCEPT ![i] = st.payload]
           /\ kwargs' = [kwargs EXCEPT ![i] = st.kwargs]
    /\ pc' = [pc EXCEPT ![i] = "post"]
    /\ UNCHANGED <<adapter, model, messages, passed, sent, response, result>>

\* str.rstrip("/")
RECURSIVE rstrip(_)
rstrip(u) ==
    IF Len(u) > 0 /\ u[Len(u)] = Slash THEN rstrip(SubSeq(u, 1, Len(u) - 1)) ELSE u

Request(target, json, tmo) == [target |-> target, json |-> json, timeout |-> tmo]

\* httpx.post(...) is entered: the request goes out
httpx_post(i) ==
    /\ pc[i] = "post"
    /\ sent' = [sent EXCEPT ![i] =
                  Append(@, Request(rstrip(url) \o _CHAT_COMPLETION_ENDPOINT,
                                    payload[i], timeout))]
    /\ pc' = [pc EXCEPT ![i] = "await"]
    /\ UNCHANGED <<adapter, model, messages, passed, kwargs, payload, response, result>>

\* httpx.post(...) comes back: it raises or returns a response
httpx_reply(i, outcomesFrom) ==
    /\ pc[i] = "await"
    /\ \E o \in outcomesFrom : response' = [response EXCEPT ![i] = o]
    /\ pc' = [pc EXCEPT ![i] = "check"]
    /\ UNCHANGED <<adapter, model, messages, passed, kwargs, payload, sent, result>>

\* response.json().get("error", response.text), raw text when that raises
ErrorDetail(r) ==
    IF r.body.parsed /\ IsDict(r.body.json)
    THEN IF "error" \in DOMAIN r.body.json.fields
         THEN r.body.json.fields["error"]
         ELSE JStr(r.body.text)
    ELSE JStr(r.body.text)

StatusFailure(r) ==
    LLMError(<<"Ollama request failed with status ", StatusText(r.status), ": ",
               PyStr(ErrorDetail(r))>>)

\* response.raise_for_status(): the exception it raises, NoExc when none
raise_for_status(r) ==
    IF r.status \in 200..299 THEN NoExc
    ELSE Exc("HTTPStatusError", <<"Server error for url">>)

\* the body of the try block after httpx.post: the exception it raises
TryBody(o) ==
    IF o.kind = "exception" THEN o.exc
    ELSE IF o.status # HTTP_OK THEN StatusFailure(o)
    ELSE raise_for_status(o)

\* variant: the last handler wraps LLMError like any other exception
ExceptClausesWrapAll(e) ==
    IF IsInstance(e, "ConnectError")
    THEN LLMError(<<"Connection failed: ">> \o _CONNECT_ERROR_MESSAGE)
    ELSE IF IsInstance(e, "HTTPStatusError")
    THEN LLMError(<<"Ollama request failed: ">> \o e.text)
    ELSE LLMError(<<"An error occurred: ">> \o e.text)

\* variant: the generic handler comes before the ConnectError handler
ExceptClausesGenericFirst(e) ==
    IF IsInstance(e, "LLMError") THEN e
    ELSE IF IsInstance(e, "Exception")
    THEN LLMError(<<"An error occurred: ">> \o e.text)
    ELSE IF IsInstance(e, "ConnectError")
    THEN LLMError(<<"Connection failed: ">> \o _CONNECT_ERROR_MESSAGE)
    ELSE LLMError(<<"Ollama request failed: ">> \o e.text)

\* the except clauses, in source order: what they raise for exception e
ExceptClauses(e) ==
    IF IsInstance(e, "ConnectError")
    THEN LLMError(<<"Connection failed: ">> \o _CONNECT_ERROR_MESSAGE)
    ELSE IF IsInstance(e, "HTTPStatusError")
    THEN LLMError(<<"Ollama request failed: ">> \o e.text)
    ELSE IF IsInstance(e, "LLMError") THEN e
    ELSE LLMError(<<"An error occurred: ">> \o e.text)

\* variant: a transport exception sends the invocation back to post once more
check_status_retry(i) ==
    /\ pc[i] = "check"
    /\ LET e == TryBody(response[i])
       IN  IF e = NoExc
           THEN /\ pc' = [pc EXCEPT ![i] = "normalize"]
                /\ UNCHANGED result
           ELSE IF response[i].kind = "exception" /\ Len(sent[i]) < 2
           THEN /\ pc' = [pc EXCEPT ![i] = "post"]
                /\ UNCHANGED result
           ELSE /\ pc' = [pc EXCEPT ![i] = "done"]
                /\ result' = [result EXCEPT ![i] = Raise(ExceptClauses(e))]
    /\ UNCHANGED <<adapter, model, messages, passed, kwargs, payload, sent, response>>

\* the rest of the try statement: status check, raise_for_status, handlers
check_status(i) ==
    /\ pc[i] = "check"
    /\ LET e == TryBody(response[i])
       IN  IF e = NoExc
           THEN /\ pc' = [pc EXCEPT ![i] = "normalize"]
                /\ UNCHANGED result
           ELSE /\ pc' = [pc EXCEPT ![i] = "done"]
                /\ result' = [result EXCEPT ![i] = Raise(ExceptClauses(e))]
    /\ UNCHANGED <<adapter, model, messages, passed, kwargs, payload, sent, response>>

\* ChatCompletionResponse(): one choice whose message is still unfilled
ChatCompletionResponse == Result("return", NoExc, Unset, Unset)

AttributeError == Exc("AttributeError", <<"object has no attribute 'get'">>)

JSONDecodeError == Exc("JSONDecodeError", <<"Expecting value: line 1 column 1 (char 0)">>)

\* variant: tool_calls defaults to an empty list when the reply has none
_normalize_response_default_tool_calls(response_data) ==
    IF ~IsDict(response_data) THEN Raise(AttributeError)
    ELSE LET message_data ==
                 IF "message" \in DOMAIN response_data.fields
                 THEN response_data.fields["message"]
                 ELSE JObj(EmptyMap)
         IN  IF ~IsDict(message_data) THEN Raise(AttributeError)
             ELSE [ChatCompletionResponse EXCEPT
                      !.content = IF "content" \in DOMAIN message_data.fields
                                  THEN message_data.fields["content"]
                                  ELSE JStr(""),
                      !.tool_calls = IF "tool_calls" \in DOMAIN message_data.fields
                                     THEN message_data.fields["tool_calls"]
                                     ELSE JArr("[]")]

_normalize_response(response_data) ==
    IF ~IsDict(response_data) THEN Raise(AttributeError)
    ELSE LET message_data ==
                 IF "message" \in DOMAIN response_data.fields
                 THEN response_data.fields["message"]
                 ELSE JObj(EmptyMap)
         IN  IF ~IsDict(message_data) THEN Raise(AttributeError)
             ELSE LET withContent ==
                          [ChatCompletionResponse EXCEPT !.content =
                              IF "content" \in DOMAIN message_data.fields
                              THEN message_data.fields["content"]
                              ELSE JStr("")]
                  IN  IF "tool_calls" \in DOMAIN message_data.fields
                      THEN [withContent EXCEPT !.tool_calls = message_data.fields["tool_calls"]]
                      ELSE withContent

\* return self._normalize_response(response.json()), outside the try
ReturnNormalized(r) ==
    IF ~r.body.parsed THEN Raise(JSONDecodeError)
    ELSE _normalize_response(r.body.json)

normalize(i) ==
    /\ pc[i] = "normalize"
    /\ result' = [result EXCEPT ![i] = ReturnNormalized(response[i])]
    /\ pc' = [pc EXCEPT ![i] = "done"]
    /\ UNCHANGED <<adapter, model, messages, passed, kwargs, payload, sent, response>>

\* --------------------------------------------------------- specifications
InitAdapter(cfgs, envs) ==
    /\ environ \in envs
    /\ config \in cfgs
    /\ constructed = FALSE
    /\ url = <<>>
    /\ timeout = 0

InitFrames(callers) ==
    /\ pc = [i \in callers |-> "idle"]
    /\ model = [i \in callers |-> ""]
    /\ messages = [i \in callers |-> ""]
    /\ passed = [i \in callers |-> EmptyMap]
    /\ kwargs = [i \in callers |-> EmptyMap]
    /\ payload = [i \in callers |-> EmptyMap]
    /\ sent = [i \in callers |-> <<>>]
    /\ response = [i \in callers |-> NoOutcome]
    /\ result = [i \in callers |-> NoResult]

\* one caller, every configuration, keyword bag and outcome
Init == InitAdapter(Configs, Environments) /\ InitFrames({1})

Next ==
    \/ __init__
    \/ \E i \in Callers : call(i, AllArgs)
    \/ \E i \in Callers : build_payload(i)
    \/ \E i \in Callers : httpx_post(i)
    \/ \E i \in Callers : httpx_reply(i, AllOutcomes)
    \/ \E i \in Callers : check_status(i)
    \/ \E i \in Callers : normalize(i)

Spec == Init /\ [][Next]_vars

\* several callers on one adapter, interleaved step by step
ConcConfigs == {[api_url |-> ExplicitUrl, timeout |-> 5]}

InitConc == InitAdapter(ConcConfigs, {EmptyMap}) /\ InitFrames(1..NumCallers)

NextConc ==
    \/ __init__
    \/ \E i \in Callers : call(i, ConcArgs)
    \/ \E i \in Callers : build_payload(i)
    \/ \E i \in Callers : httpx_post(i)
    \/ \E i \in Callers : httpx_reply(i, ConcOutcomes)
    \/ \E i \in Callers : check_status(i)
    \/ \E i \in Callers : normalize(i)

SpecConc == InitConc /\ [][NextConc]_vars

TypeOK ==
    /\ constructed \in BOOLEAN
    /\ \A i \in Callers :
          /\ pc[i] \in {"idle", "build", "post", "await", "check", "normalize", "done"}
          /\ Len(sent[i]) <= 1

\* ------------------------------------------------------------- properties
Done(i) == pc[i] = "done"

\* the payloads caller i has put on the wire
SentPayloads(i) == {sent[i][n].json : n \in 1..Len(sent[i])}

\* the option keys among a keyword bag
PresentOptions(kw) == (DOMAIN kw) \cap OptionKeySet

\* C1: every finished invocation either returned a normalized response or
\* raised LLMError; no exception of another kind reaches the caller.
C1_OnlyProviderErrors ==
    \A i \in Callers :
        Done(i) =>
            \/ result[i].kind = "return"
            \/ result[i].kind = "raise" /\ result[i].exc.class = "LLMError"

NoOptionAtTopLevel(p, kw) == \A k \in PresentOptions(kw) : k \notin DOMAIN p

OptionsNested(p, kw) ==
    /\ PresentOptions(kw) # {} =>
          /\ "options" \in DOMAIN p
          /\ IsDict(p["options"])
          /\ \A k \in PresentOptions(kw) :
                /\ k \in DOMAIN p["options"].fields
                /\ p["options"].fields[k] = kw[k]
    /\ PresentOptions(kw) = {} => "options" \notin DOMAIN p

\* C2 as stated: for all kwargs, extra keys such as options included, the
\* option keys present are absent from the top level of the sent payload and
\* sit in payload.options with identical values; with none present the
\* payload has no options key.
C2_OptionsMovedForAllKwargs ==
    \A i \in Callers : \A p \in SentPayloads(i) :
        NoOptionAtTopLevel(p, passed[i]) /\ OptionsNested(p, passed[i])

\* C2 amended: the option keys present are never at the top level of the sent
\* payload; when the kwargs carry no key options of their own, the present
\* option keys sit in payload.options with identical values and options is
\* absent when none is present; when the kwargs do carry options, the
\* payload's options is the caller's value.
C2_OptionsMovedUnlessOverridden ==
    \A i \in Callers : \A p \in SentPayloads(i) :
        /\ NoOptionAtTopLevel(p, passed[i])
        /\ "options" \notin DOMAIN passed[i] => OptionsNested(p, passed[i])
        /\ "options" \in DOMAIN passed[i] =>
              "options" \in DOMAIN p /\ p["options"] = passed[i]["options"]

C2_Witness ==
    \E i \in Callers : \E p \in SentPayloads(i) :
        /\ "options" \notin DOMAIN passed[i]
        /\ "tools" \in DOMAIN passed[i]
        /\ PresentOptions(passed[i]) = {"temperature"}
        /\ p["options"] = JObj("temperature" :> passed[i]["temperature"])

\* C3 as stated: every sent payload has stream = false and holds the caller's
\* model and messages, for every model, messages and kwargs.
C3_StreamAlwaysFalse ==
    \A i \in Callers : \A p \in SentPayloads(i) :
        /\ {"model", "messages", "stream"} \subseteq DOMAIN p
        /\ p["stream"] = JBool(FALSE)
        /\ p["model"] = JStr(model[i])
        /\ p["messages"] = JArr(messages[i])

\* C3 amended: every sent payload holds the caller's model and messages and
\* has a stream key; stream is false unless the kwargs carry a key stream,
\* and then it is the caller's value.
C3_StreamFalseUnlessPassed ==
    \A i \in Callers : \A p \in SentPayloads(i) :
        /\ {"model", "messages", "stream"} \subseteq DOMAIN p
        /\ p["model"] = JStr(model[i])
        /\ p["messages"] = JArr(messages[i])
        /\ p["stream"] = IF "stream" \in DOMAIN passed[i]
                         THEN passed[i]["stream"] ELSE JBool(FALSE)

C3_Witness ==
    \E i \in Callers : \E p \in SentPayloads(i) :
        /\ "stream" \notin DOMAIN passed[i]
        /\ "format" \in DOMAIN passed[i]
        /\ p["stream"] = JBool(FALSE)
        /\ p["model"] = JStr("mistral")

\* the detail C4 names: the error field of a JSON object body, else the text
StatedDetail(b) ==
    IF b.parsed /\ b.json.kind = "object" /\ "error" \in DOMAIN b.json.fields
    THEN PyStr(b.json.fields["error"])
    ELSE b.text

\* C4: a response whose status is not 200 makes the invocation raise LLMError
\* with message "Ollama request failed with status {status}: {error_detail}",
\* error_detail being the error field of a JSON object body and the raw text
\* otherwise; the generic handler does not wrap it again.
C4_StatusFailureMessage ==
    \A i \in Callers :
        (Done(i) /\ response[i].kind = "response" /\ response[i].status # 200) =>
            /\ result[i].kind = "raise"
            /\ result[i].exc.class = "LLMError"
            /\ result[i].exc.text =
                  <<"Ollama request failed with status ", StatusText(response[i].status),
                    ": ", StatedDetail(response[i].body)>>

C4_Witness ==
    \E i \in Callers :
        /\ Done(i)
        /\ response[i].kind = "response"
        /\ response[i].status = 500
        /\ result[i].exc.text = <<"Ollama request failed with status ", "500", ": ", "boom">>

\* C5: when the connection cannot be established (httpx.ConnectError) the
\* invocation raises LLMError with the "Connection failed: ..." message, not
\* the generic "An error occurred: ..." one.
C5_ConnectionFailedMessage ==
    \A i \in Callers :
        (Done(i) /\ response[i].kind = "exception"
                 /\ response[i].exc.class = "ConnectError") =>
            /\ result[i].kind = "raise"
            /\ result[i].exc.class = "LLMError"
            /\ result[i].exc.text =
                  <<"Connection failed: ",
                    "Ollama is likely not running. Start Ollama by running 'ollama serve' on your host.">>

C5_Witness ==
    \E i \in Callers :
        /\ Done(i)
        /\ response[i].exc.class = "ConnectError"
        /\ result[i].kind = "raise"
        /\ result[i].exc.text[1] = "Connection failed: "

\* the payload the construction rules give, in closed form
ExpectedPayload(m, ms, kw) ==
    LET S == PresentOptions(kw)
        rest == (DOMAIN kw) \ (S \cup {"tools"})
        keys == {"model", "messages", "stream"}
                  \cup (IF "tools" \in DOMAIN kw THEN {"tools"} ELSE {})
                  \cup (IF S # {} THEN {"options"} ELSE {})
                  \cup rest
    IN  [k \in keys |->
            IF k \in rest THEN kw[k]
            ELSE CASE k = "model"    -> JStr(m)
                   [] k = "messages" -> JArr(ms)
                   [] k = "stream"   -> JBool(FALSE)
                   [] k = "tools"    -> kw["tools"]
                   [] k = "options"  -> JObj([x \in S |-> kw[x]])]

\* C6: an invocation issues exactly one request before it returns or raises,
\* on every path; never a second one, never none; and the request carries
\* the fully built payload.
C6_ExactlyOneRequest ==
    \A i \in Callers :
        /\ Len(sent[i]) <= 1
        /\ pc[i] \in {"idle", "build", "post"} => Len(sent[i]) = 0
        /\ pc[i] \in {"await", "check", "normalize", "done"} => Len(sent[i]) = 1
        /\ \A p \in SentPayloads(i) :
              p = ExpectedPayload(model[i], messages[i], passed[i])

C6_Witness ==
    \E i \in Callers :
        /\ Done(i)
        /\ result[i].kind = "raise"
        /\ response[i].kind = "exception"
        /\ response[i].exc.class = "ReadTimeout"
        /\ Len(sent[i]) = 1
        /\ "tools" \in DOMAIN sent[i][1].json

\* the message object of a reply, {} when the reply has none
MessageOf(data) ==
    IF "message" \in DOMAIN data.fields THEN data.fields["message"] ELSE JObj(EmptyMap)

C8_UrlNonEmpty == constructed => Len(url) > 0

\* the three sources of the url, read off the constructor's inputs
Supplied(cfg, key) == key \in DOMAIN cfg

\* C10 as stated: url is the api_url config value when one is supplied, else
\* OLLAMA_API_URL when set, else the default; timeout is the config timeout
\* when supplied and 30 otherwise.
C10_ExplicitUrlWhenSupplied ==
    constructed =>
        /\ url = IF Supplied(config, "api_url") THEN config.api_url
                 ELSE IF EnvVarName \in DOMAIN environ THEN environ[EnvVarName]
                 ELSE <<"http://localhost:11434">>
        /\ timeout = IF Supplied(config, "timeout") THEN config.timeout ELSE 30

\* C10 amended: url is the api_url config value when one is supplied and is
\* not empty, else OLLAMA_API_URL when set, else the default; with api_url
\* omitted and the variable unset it is the default; timeout is the config
\* timeout when supplied and 30 otherwise.
C10_ExplicitUrlWhenNonEmpty ==
    constructed =>
        /\ url = IF Supplied(config, "api_url") /\ config.api_url # <<>>
                 THEN config.api_url
                 ELSE IF EnvVarName \in DOMAIN environ THEN environ[EnvVarName]
                 ELSE <<"http://localhost:11434">>
        /\ (~Supplied(config, "api_url") /\ EnvVarName \notin DOMAIN environ)
              => url = <<"http://localhost:11434">>
        /\ timeout = IF Supplied(config, "timeout") THEN config.timeout ELSE 30

C10_Witness ==
    /\ constructed
    /\ Supplied(config, "api_url")
    /\ config.api_url = <<>>
    /\ EnvVarName \in DOMAIN environ
    /\ url = EnvUrl
    /\ timeout = 30

\* what the classification and normalization rules give for a reply
ExpectedResult(o) ==
    IF o.kind = "exception"
    THEN IF o.exc.class = "ConnectError"
         THEN Raise(LLMError(<<"Connection failed: ">> \o _CONNECT_ERROR_MESSAGE))
         ELSE Raise(LLMError(<<"An error occurred: ">> \o o.exc.text))
    ELSE IF o.status # 200
    THEN Raise(LLMError(<<"Ollama request failed with status ", StatusText(o.status),
                          ": ", StatedDetail(o.body)>>))
    ELSE IF ~o.body.parsed THEN Raise(JSONDecodeError)
    ELSE IF o.body.json.kind # "object" \/ MessageOf(o.body.json).kind # "object"
    THEN Raise(AttributeError)
    ELSE LET msg == MessageOf(o.body.json).fields
         IN  Result("return", NoExc,
                    IF "content" \in DOMAIN msg THEN msg["content"] ELSE JStr(""),
                    IF "tool_calls" \in DOMAIN msg THEN msg["tool_calls"] ELSE Unset)

\* each caller's payload, request and result are those of its own arguments,
\* the adapter's configuration and its own reply
OwnInputsOnly ==
    \A i \in Callers :
        /\ pc[i] \notin {"idle", "build"} =>
              payload[i] = ExpectedPayload(model[i], messages[i], passed[i])
        /\ \A n \in 1..Len(sent[i]) :
              /\ sent[i][n].json = ExpectedPayload(model[i], messages[i], passed[i])
              /\ sent[i][n].timeout = timeout
        /\ Done(i) => result[i] = ExpectedResult(response[i])
        /\ ~Done(i) => result[i] = NoResult

\* C9: no invocation changes the adapter's url or timeout, and in every
\* interleaving of concurrent invocations each one's payload and result
\* depend only on its own arguments, the configuration and its own reply.
C9_NoSharedMutableState ==
    /\ [][constructed => (url' = url /\ timeout' = timeout)]_vars
    /\ []OwnInputsOnly

C9_Witness ==
    \E i, j \in Callers :
        /\ i # j
        /\ pc[i] = "await"
        /\ pc[j] = "check"
        /\ model[i] # model[j]
        /\ passed[i] # passed[j]
        /\ sent[i][1].json # sent[j][1].json

====
